---------------------------- MODULE Spec2Model ----------------------------
(***************************************************************************)
(* Certificate distribution platform: the text fitting / truncation /      *)
(* placement of app/certificate_generator.py and the caching endpoints of  *)
(* app/main.py.                                                            *)
(*                                                                         *)
(* A text is a sequence of glyphs.  The imaging backend (Pillow's          *)
(* draw.textbbox) is a measurement function the program does not control:  *)
(* it is drawn at Init from a family of font metrics (glyph advances, a    *)
(* kerning pair that may shrink a text when a glyph is appended, a hinting *)
(* term that makes the width non-linear in the size, bearings).            *)
(***************************************************************************)
EXTENDS Integers, Sequences, FiniteSets, TLC

VARIABLES
    metrics,    \* the font metrics behind draw.textbbox
    pc,         \* position of the caller of the function under study
    arg,        \* arguments of the call
    res,        \* what the call returned
    env,        \* the process environment and deployment (os.getenv, template, font)
    canvas,     \* img.size of the opened template
    files,      \* the output directory: certificate id -> the PDF written there
    csv,        \* the students CSV: its rows, or missing
    management_csv, \* the management CSV: its rows, or missing
    ADMIN_KEY,  \* main.ADMIN_KEY
    writes      \* per certificate id, how often a request without force wrote its PDF

vars == <<metrics, pc, arg, res, env, canvas, files, csv, management_csv, ADMIN_KEY,
          writes>>

(***************************************************************************)
(* Bounds of the model.                                                    *)
(***************************************************************************)
MaxLen == 4        \* longest text handed to _truncate_to_fit
MaxNameLen == 3    \* longest text handed to _fit_text
MaxW == 10         \* largest max_width
MaxSize == 5       \* largest font size (start_size, min_size)
MaxRenderLen == 2  \* longest name handed to generate_certificate
MaxRows == 2       \* most rows of the students CSV

(***************************************************************************)
(* Glyphs and texts.                                                       *)
(***************************************************************************)
ellipsis == "..."
Space == " "
Glyph == {"a", "A", Space, ellipsis}

TextsUpTo(n) == UNION {[1..k -> Glyph] : k \in 0..n}

None == [none |-> TRUE]

\* F applied to the value of v, with v evaluated once
Bind(v, F(_)) == CHOOSE r \in {F(x) : x \in {v}} : TRUE

\* str.rstrip(): drop the trailing whitespace
RECURSIVE rstrip(_)
rstrip(s) ==
    IF s = <<>> THEN <<>>
    ELSE IF s[Len(s)] = Space THEN rstrip(SubSeq(s, 1, Len(s) - 1))
    ELSE s

\* str.lstrip(): drop the leading whitespace
RECURSIVE lstrip(_)
lstrip(s) ==
    IF s = <<>> THEN <<>>
    ELSE IF s[1] = Space THEN lstrip(Tail(s))
    ELSE s

\* str.strip()
strip(s) == lstrip(rstrip(s))

(***************************************************************************)
(* draw.textbbox((0, 0), text, font=font): the bounding box of a text at a *)
(* font size.  The empty text has the empty box.                           *)
(***************************************************************************)
RECURSIVE Advance(_, _, _)
Advance(m, text, size) ==
    IF text = <<>> THEN 0
    ELSE m.adv[text[1]] * size + Advance(m, Tail(text), size)

RECURSIVE KernPairs(_)
KernPairs(text) ==
    IF Len(text) < 2 THEN 0
    ELSE (IF text[1] = "A" /\ text[2] = "a" THEN 1 ELSE 0) + KernPairs(Tail(text))

Max(a, b) == IF a >= b THEN a ELSE b
Min(a, b) == IF a <= b THEN a ELSE b

TextWidth(m, text, size) ==
    IF text = <<>> THEN 0
    ELSE Max(0, Advance(m, text, size) - m.kern * KernPairs(text)
                + (IF size % 2 = 1 THEN m.hint ELSE 0))

textbbox(m, text, size) ==
    IF text = <<>> THEN [left |-> 0, top |-> 0, right |-> 0, bottom |-> 0]
    ELSE [left   |-> m.left,
          top    |-> m.top,
          right  |-> m.left + TextWidth(m, text, size),
          bottom |-> m.top + m.height * size]

BoxWidth(m, text, size) == textbbox(m, text, size).right - textbbox(m, text, size).left

Metrics(advE, kern, hint, left, top) ==
    [adv    |-> [g \in Glyph |-> CASE g = "a" -> 1
                                   [] g = "A" -> 2
                                   [] g = Space -> 1
                                   [] OTHER -> advE],
     kern   |-> kern,
     hint   |-> hint,
     left   |-> left,
     top    |-> top,
     height |-> 2]

\* the metrics the width-only functions are checked against
WidthMetrics ==
    {Metrics(e, k, h, 0, 0) : e \in {1, 3}, k \in {0, 3}, h \in {0, 2}}

\* the metrics of a font of one size: the hinting term is part of the advances
TruncateMetrics == {Metrics(e, k, 0, 0, 0) : e \in {1, 3}, k \in {0, 3}}

(***************************************************************************)
(* CertificateGenerator._fit_text: the size of the returned font, and the  *)
(* number of measurements taken.                                           *)
(***************************************************************************)
RECURSIVE FitLoop(_, _, _, _, _, _)
FitLoop(m, text, max_width, min_size, size, iters) ==
    IF size >= min_size
    THEN IF BoxWidth(m, text, size) <= max_width
         THEN [size |-> size, iters |-> iters + 1]
         ELSE FitLoop(m, text, max_width, min_size, size - 2, iters + 1)
    ELSE [size |-> min_size, iters |-> iters]

\* a loop that returns the font of the size it stopped at instead of min_size
RECURSIVE FitLoopPastFloor(_, _, _, _, _, _)
FitLoopPastFloor(m, text, max_width, min_size, size, iters) ==
    IF size >= min_size
    THEN IF BoxWidth(m, text, size) <= max_width
         THEN [size |-> size, iters |-> iters + 1]
         ELSE FitLoopPastFloor(m, text, max_width, min_size, size - 2, iters + 1)
    ELSE [size |-> size, iters |-> iters]

\* a loop that asks for room to spare: width < max_width
RECURSIVE FitLoopStrict(_, _, _, _, _, _)
FitLoopStrict(m, text, max_width, min_size, size, iters) ==
    IF size >= min_size
    THEN IF BoxWidth(m, text, size) < max_width
         THEN [size |-> size, iters |-> iters + 1]
         ELSE FitLoopStrict(m, text, max_width, min_size, size - 2, iters + 1)
    ELSE [size |-> min_size, iters |-> iters]

\* a loop that tries every size: size -= 1
RECURSIVE FitLoopStepOne(_, _, _, _, _, _)
FitLoopStepOne(m, text, max_width, min_size, size, iters) ==
    IF size >= min_size
    THEN IF BoxWidth(m, text, size) <= max_width
         THEN [size |-> size, iters |-> iters + 1]
         ELSE FitLoopStepOne(m, text, max_width, min_size, size - 1, iters + 1)
    ELSE [size |-> min_size, iters |-> iters]

_fit_text_StepOne(m, text, max_width, start_size, min_size) ==
    FitLoopStepOne(m, text, max_width, min_size, start_size, 0)

_fit_text_Strict(m, text, max_width, start_size, min_size) ==
    FitLoopStrict(m, text, max_width, min_size, start_size, 0)

_fit_text_PastFloor(m, text, max_width, start_size, min_size) ==
    FitLoopPastFloor(m, text, max_width, min_size, start_size, 0)

\* a fitter that gives up with the start size instead of min_size
_fit_text_KeepStart(m, text, max_width, start_size, min_size) ==
    LET r == FitLoop(m, text, max_width, min_size, start_size, 0)
    IN  IF BoxWidth(m, text, r.size) <= max_width THEN r
        ELSE [size |-> start_size, iters |-> r.iters]

_fit_text(m, text, max_width, start_size, min_size) ==
    FitLoop(m, text, max_width, min_size, start_size, 0)

(***************************************************************************)
(* CertificateGenerator._truncate_to_fit                                   *)
(***************************************************************************)
\* a search that measures the prefix alone, forgetting the ellipsis it appends
RECURSIVE SearchPrefixOnly(_, _, _, _, _, _, _)
SearchPrefixOnly(m, base, size, max_width, lo, hi, best) ==
    IF lo <= hi
    THEN LET mid == (lo + hi) \div 2
             candidate == IF mid < Len(base)
                          THEN rstrip(SubSeq(base, 1, mid)) \o <<ellipsis>>
                          ELSE base
         IN  IF BoxWidth(m, SubSeq(base, 1, mid), size) <= max_width
             THEN SearchPrefixOnly(m, base, size, max_width, mid + 1, hi, candidate)
             ELSE SearchPrefixOnly(m, base, size, max_width, lo, mid - 1, best)
    ELSE best

\* a search that keeps the last candidate tried, fitting or not
RECURSIVE SearchKeepLast(_, _, _, _, _, _, _)
SearchKeepLast(m, base, size, max_width, lo, hi, best) ==
    IF lo <= hi
    THEN LET mid == (lo + hi) \div 2
             candidate == IF mid < Len(base)
                          THEN rstrip(SubSeq(base, 1, mid)) \o <<ellipsis>>
                          ELSE base
         IN  IF BoxWidth(m, candidate, size) <= max_width
             THEN SearchKeepLast(m, base, size, max_width, mid + 1, hi, candidate)
             ELSE SearchKeepLast(m, base, size, max_width, lo, mid - 1, candidate)
    ELSE best

\* a search that moves the wrong way after a fitting candidate
RECURSIVE SearchWrongWay(_, _, _, _, _, _, _)
SearchWrongWay(m, base, size, max_width, lo, hi, best) ==
    IF lo <= hi
    THEN LET mid == (lo + hi) \div 2
             candidate == IF mid < Len(base)
                          THEN rstrip(SubSeq(base, 1, mid)) \o <<ellipsis>>
                          ELSE base
         IN  IF BoxWidth(m, candidate, size) <= max_width
             THEN SearchWrongWay(m, base, size, max_width, lo, mid - 1, candidate)
             ELSE SearchWrongWay(m, base, size, max_width, mid + 1, hi, best)
    ELSE best

RECURSIVE Search(_, _, _, _, _, _, _)
Search(m, base, size, max_width, lo, hi, best) ==
    IF lo <= hi
    THEN LET mid == (lo + hi) \div 2
             candidate == IF mid < Len(base)
                          THEN rstrip(SubSeq(base, 1, mid)) \o <<ellipsis>>
                          ELSE base
         IN  IF BoxWidth(m, candidate, size) <= max_width
             THEN Search(m, base, size, max_width, mid + 1, hi, candidate)
             ELSE Search(m, base, size, max_width, lo, mid - 1, best)
    ELSE best

\* a truncation without the early return for a blank text
_truncate_to_fit_NoBlankReturn(m, text, size, max_width) ==
    IF BoxWidth(m, text, size) <= max_width
    THEN text
    ELSE LET base == strip(text)
             best == Search(m, base, size, max_width, 0, Len(base), <<>>)
         IN  IF best = <<>> THEN <<ellipsis>> ELSE best

_truncate_to_fit(m, text, size, max_width) ==
    IF BoxWidth(m, text, size) <= max_width
    THEN text
    ELSE LET base == strip(text)
         IN  IF base = <<>> THEN <<>>
             ELSE LET best == Search(m, base, size, max_width, 0, Len(base), <<>>)
                  IN  IF best = <<>> THEN <<ellipsis>> ELSE best

(***************************************************************************)
(* SpecFit: _fit_text called on every input of the bounds.                 *)
(***************************************************************************)
FitInit ==
    /\ metrics \in WidthMetrics
    /\ arg \in [text : TextsUpTo(MaxNameLen), max_width : 0..MaxW,
                start_size : 1..MaxSize, min_size : 1..MaxSize]
    /\ pc = "call"
    /\ res = None
    /\ env = None /\ canvas = None /\ files = None
    /\ csv = None /\ management_csv = None /\ ADMIN_KEY = None /\ writes = None

FitText ==
    /\ pc = "call"
    /\ res' = _fit_text(metrics, arg.text, arg.max_width, arg.start_size, arg.min_size)
    /\ pc' = "fitted"
    /\ UNCHANGED <<metrics, arg, env, canvas, files, csv, management_csv, ADMIN_KEY, writes>>

FitNext == FitText

SpecFit == FitInit /\ [][FitNext]_vars

(* C3 as claimed: for every text, max_width, start_size and min_size the
   size of the font _fit_text returns lies in [min_size, start_size]. *)
C3_SizeInRangeAlways ==
    pc = "fitted" => (arg.min_size <= res.size /\ res.size <= arg.start_size)

(* C3 amended: when start_size >= min_size the returned size lies in
   [min_size, start_size]; when start_size < min_size the loop never runs
   and the returned size is min_size, above start_size. *)
C3_SizeInRange ==
    pc = "fitted" =>
        /\ arg.start_size >= arg.min_size =>
              (arg.min_size <= res.size /\ res.size <= arg.start_size)
        /\ arg.start_size < arg.min_size => res.size = arg.min_size

\* the loop stepped down and stopped strictly inside the range
C3_Witness ==
    /\ pc = "fitted"
    /\ arg.min_size < res.size /\ res.size < arg.start_size
    /\ res.iters = 2

(* C4: the text measured at the returned size is at most max_width wide, or
   the returned size is min_size (the best-effort floor). *)
C4_FitsOrFloor ==
    pc = "fitted" =>
        \/ BoxWidth(metrics, arg.text, res.size) <= arg.max_width
        \/ res.size = arg.min_size

\* the floor: every size of the scan overflowed and min_size itself overflows
C4_Witness ==
    /\ pc = "fitted"
    /\ res.iters >= 2
    /\ res.size = arg.min_size
    /\ BoxWidth(metrics, arg.text, res.size) > arg.max_width

\* the text measured at a size is at most max_width wide
Fits(size) == BoxWidth(metrics, arg.text, size) <= arg.max_width

\* the sizes the loop can measure: start_size, start_size - 2, ... >= min_size
Scanned ==
    {s \in arg.min_size..arg.start_size : (arg.start_size - s) % 2 = 0}

(* C13 as claimed: for every start_size >= min_size, whenever some size in
   [min_size, start_size] has the text at most max_width wide, _fit_text
   returns the largest such size. *)
C13_LargestFitting ==
    (pc = "fitted" /\ arg.start_size >= arg.min_size
        /\ \E s \in arg.min_size..arg.start_size : Fits(s)) =>
        /\ Fits(res.size)
        /\ \A s \in arg.min_size..arg.start_size : Fits(s) => s <= res.size

(* C13 amended: for every start_size >= min_size, whenever the text is at
   most max_width wide at one of the sizes start_size, start_size - 2,
   start_size - 4, ... not below min_size, _fit_text returns the largest of
   these sizes at which it is; the sizes in between are never measured. *)
C13_LargestScanned ==
    (pc = "fitted" /\ arg.start_size >= arg.min_size
        /\ \E s \in Scanned : Fits(s)) =>
        /\ res.size \in Scanned
        /\ Fits(res.size)
        /\ \A s \in Scanned : Fits(s) => s <= res.size

\* an odd difference: the loop stepped over a size at which the text fits
\* and returned the next size it measured
C13_Witness ==
    /\ pc = "fitted"
    /\ (arg.start_size - arg.min_size) % 2 = 1
    /\ res.size + 1 < arg.start_size
    /\ Fits(res.size + 1) /\ ~Fits(res.size + 2)
    /\ res.size \in Scanned /\ Fits(res.size)

(* C17 as claimed: _fit_text terminates, and for every start_size and
   min_size the number of measurements it takes is at most
   (start_size - min_size) / 2 + 1. *)
C17_IterationsBoundedAlways ==
    pc = "fitted" => 2 * res.iters <= (arg.start_size - arg.min_size) + 2

(* C17 amended: _fit_text terminates; when start_size >= min_size it takes
   at least one and at most (start_size - min_size) / 2 + 1 measurements
   (the division rounded down), and when start_size < min_size it takes
   none, although (start_size - min_size) / 2 + 1 is negative once
   start_size < min_size - 2. *)
C17_IterationsBounded ==
    pc = "fitted" =>
        /\ arg.start_size >= arg.min_size =>
              /\ 1 <= res.iters
              /\ res.iters <= (arg.start_size - arg.min_size) \div 2 + 1
        /\ arg.start_size < arg.min_size => res.iters = 0

\* nothing fitted and the loop took every measurement the bound allows
C17_Witness ==
    /\ pc = "fitted"
    /\ arg.start_size >= arg.min_size + 4
    /\ res.iters = (arg.start_size - arg.min_size) \div 2 + 1
    /\ res.size = arg.min_size

(***************************************************************************)
(* SpecTruncate: _truncate_to_fit called on every input of the bounds,     *)
(* then on its own result, then on the same text with a wider budget.      *)
(***************************************************************************)
TruncateInit ==
    /\ metrics \in TruncateMetrics
    /\ arg \in [text : TextsUpTo(MaxLen), size : 1..2, max_width : 0..MaxW]
    /\ pc = "call"
    /\ res = None
    /\ env = None /\ canvas = None /\ files = None
    /\ csv = None /\ management_csv = None /\ ADMIN_KEY = None /\ writes = None

Truncate ==
    /\ pc = "call"
    /\ res' = [out |-> _truncate_to_fit(metrics, arg.text, arg.size, arg.max_width)]
    /\ pc' = "truncated"
    /\ UNCHANGED <<metrics, arg, env, canvas, files, csv, management_csv, ADMIN_KEY, writes>>

TruncateAgain ==
    /\ pc = "truncated"
    /\ res' = [out |-> res.out,
               again |-> _truncate_to_fit(metrics, res.out, arg.size, arg.max_width)]
    /\ pc' = "again"
    /\ UNCHANGED <<metrics, arg, env, canvas, files, csv, management_csv, ADMIN_KEY, writes>>

TruncateWider ==
    /\ pc = "again"
    /\ \E w2 \in (arg.max_width + 1)..(MaxW + 1) :
          res' = [out |-> res.out, again |-> res.again, w2 |-> w2,
                  wider |-> _truncate_to_fit(metrics, arg.text, arg.size, w2)]
    /\ pc' = "wider"
    /\ UNCHANGED <<metrics, arg, env, canvas, files, csv, management_csv, ADMIN_KEY, writes>>

TruncateNext == Truncate \/ TruncateAgain \/ TruncateWider

SpecTruncate == TruncateInit /\ [][TruncateNext]_vars

\* the call took the truncating path: the text overflowed and was not blank
Truncated ==
    /\ BoxWidth(metrics, arg.text, arg.size) > arg.max_width
    /\ strip(arg.text) # <<>>

(* C1: for every text and every max_width >= 1 the string _truncate_to_fit
   returns measures at most max_width, or is the empty string, or is the
   ellipsis alone. *)
C1_TruncateBounded ==
    (pc # "call" /\ arg.max_width >= 1) =>
        \/ BoxWidth(metrics, res.out, arg.size) <= arg.max_width
        \/ res.out = <<>>
        \/ res.out = <<ellipsis>>

\* a text cut to a proper prefix and the ellipsis, inside the budget
C1_Witness ==
    /\ pc = "truncated" /\ arg.max_width >= 1 /\ Truncated
    /\ Len(res.out) >= 2
    /\ res.out[Len(res.out)] = ellipsis
    /\ res.out # strip(arg.text)
    /\ BoxWidth(metrics, res.out, arg.size) <= arg.max_width

(* C5: _truncate_to_fit is idempotent: truncating its result again with
   the same font and width returns the same string. *)
C5_Idempotent ==
    pc \in {"again", "wider"} => res.again = res.out

\* the second call was made on a text the first call had shortened
C5_Witness ==
    /\ pc = "again" /\ Truncated
    /\ res.out # arg.text
    /\ Len(res.out) >= 2
    /\ res.again = res.out

(* C6: _truncate_to_fit is monotone in the width budget: for W1 < W2 the
   result for W1 is no longer than the result for W2. *)
C6_Monotone ==
    pc = "wider" => Len(res.out) <= Len(res.wider)

\* both budgets truncate, and the wider one keeps more of the text
C6_Witness ==
    /\ pc = "wider" /\ Truncated
    /\ BoxWidth(metrics, arg.text, arg.size) > res.w2
    /\ Len(res.out) >= 2
    /\ Len(res.out) < Len(res.wider)

\* the candidate the search builds for a prefix length k of base
Candidate(base, k) ==
    IF k < Len(base) THEN rstrip(SubSeq(base, 1, k)) \o <<ellipsis>> ELSE base

\* the prefix lengths of the trimmed text whose candidate fits
FittingLengths ==
    {k \in 0..Len(strip(arg.text)) :
        BoxWidth(metrics, Candidate(strip(arg.text), k), arg.size) <= arg.max_width}

(* C14: when the input text does not fit, _truncate_to_fit returns the
   candidate of the longest prefix length k in 0..len(text) whose candidate
   (prefix[:k].rstrip() + ellipsis) measures at most max_width, and the
   ellipsis alone when no candidate fits.  Stated for a measurement without
   kerning, whose width does not shrink when a glyph is appended. *)
C14_LongestPrefix ==
    (pc # "call" /\ Truncated /\ metrics.kern = 0) =>
        /\ FittingLengths # {} =>
              \E k \in FittingLengths :
                  /\ \A j \in FittingLengths : j <= k
                  /\ res.out = Candidate(strip(arg.text), k)
        /\ FittingLengths = {} => res.out = <<ellipsis>>

(* C15 as claimed: for every empty or whitespace-only input text and every
   max_width, _truncate_to_fit returns the empty string. *)
C15_BlankGivesEmpty ==
    (pc # "call" /\ strip(arg.text) = <<>>) => res.out = <<>>

(* C15 amended: for every empty or whitespace-only input text,
   _truncate_to_fit returns the empty string when the text measures more
   than max_width, and the text itself, unchanged, when it measures at most
   max_width (the empty text always does). *)
C15_BlankUnchangedOrEmpty ==
    (pc # "call" /\ strip(arg.text) = <<>>) =>
        /\ Fits(arg.size) => res.out = arg.text
        /\ ~Fits(arg.size) => res.out = <<>>

\* a text of spaces wider than the budget came back empty
C15_Witness ==
    /\ pc = "truncated"
    /\ arg.text # <<>> /\ strip(arg.text) = <<>>
    /\ ~Fits(arg.size)
    /\ res.out = <<>>

(***************************************************************************)
(* The environment.  A variable is Unset or holds a number: pixels and     *)
(* sizes as integers, ratios in percent (0.12 is 12), the letter spacing   *)
(* in thousandths (0.015 is 15).  Coordinates, which the code computes as  *)
(* floats, are kept exactly in hundredths of a pixel.                      *)
(***************************************************************************)
Unset == [kind |-> "unset"]
Num(n) == [kind |-> "num", val |-> n]

\* os.getenv(key, default)
Getenv(v, default) == IF v.kind = "unset" THEN default ELSE v.val

\* margin_px and margin_px.strip().isdigit(): a string of decimal digits only
IsDigit(v) == v.kind = "num" /\ v.val >= 0

\* int(n / d) for d > 0: Python's int() truncates toward zero
IntTrunc(n, d) == IF n >= 0 THEN n \div d ELSE -((-n) \div d)

DefaultMarginRatio == 12
DefaultStartFloor == 24
DefaultStartRatio == 6
DefaultMinSize == 14
DefaultYRatio == 52
DefaultYOffset == 0
CourseSizeRatio == 60
PaddingRatio == 2
MgmtDefaultStartSize == 55
MgmtDefaultMinSize == 45
MgmtDefaultYOffset == -134
MgmtDefaultXOffset == 5
MgmtDefaultLetterSpacing == 15

Raise(e) == [status |-> "error", error |-> e]
NoCourse == [drawn |-> FALSE]
NoFile == [exists |-> FALSE, draws |-> <<>>]
Pdf(draws) == [exists |-> TRUE, draws |-> draws]
DrawText(x, y, text, size) == [x |-> x, y |-> y, text |-> text, size |-> size]

\* margin and max_text_width of generate_certificate
Margin(e, width) ==
    IF IsDigit(e.CERT_NAME_MARGIN_PX)
    THEN e.CERT_NAME_MARGIN_PX.val
    ELSE IntTrunc(width * Getenv(e.CERT_NAME_MARGIN_RATIO, DefaultMarginRatio), 100)

\* margin of generate_management_certificate:
\* os.getenv("CERT_MGMT_NAME_MARGIN_PX") or os.getenv("CERT_NAME_MARGIN_PX")
MgmtMargin(e, width) ==
    LET margin_px == IF e.CERT_MGMT_NAME_MARGIN_PX.kind = "unset"
                     THEN e.CERT_NAME_MARGIN_PX
                     ELSE e.CERT_MGMT_NAME_MARGIN_PX
    IN  IF IsDigit(margin_px)
        THEN margin_px.val
        ELSE IntTrunc(width * Getenv(e.CERT_MGMT_NAME_MARGIN_RATIO,
                                     Getenv(e.CERT_NAME_MARGIN_RATIO, DefaultMarginRatio)),
                      100)

MaxTextWidth(width, margin) == Max(1, width - 2 * margin)

\* a clamp applied in the other order: the upper bound wins over the margin
ClampUpperLast(x, margin, width, text_w) ==
    Min(100 * (width - margin - text_w), Max(100 * margin, x))

\* x = max(margin, min(x, (width - margin - text_w)))
Clamp(x, margin, width, text_w) ==
    Max(100 * margin, Min(x, 100 * (width - margin - text_w)))

\* x = (width - text_w) / 2 - left
CenterX(width, text_w, left) == 50 * (width - text_w) - 100 * left

\* y = (center_y - (text_h / 2)) - top, center_y = (height * y_ratio) + y_offset
CenterY(height, y_ratio, y_offset, text_h, top) ==
    height * y_ratio + 100 * y_offset - 50 * text_h - 100 * top

\* a course line stacked without the bearing of its own box
CourseYNoBearing(y, text_h, padding, top_c) == y + 100 * text_h + 100 * padding

\* y_c = y + text_h + padding - top_c
CourseY(y, text_h, padding, top_c) ==
    y + 100 * text_h + 100 * padding - 100 * top_c

(***************************************************************************)
(* CertificateGenerator._draw_text_with_letter_spacing: the draw.text      *)
(* calls it makes, one per character.                                      *)
(***************************************************************************)
RECURSIVE _draw_text_with_letter_spacing(_, _, _, _, _, _)
_draw_text_with_letter_spacing(m, x, y, text, size, letter_spacing) ==
    IF text = <<>> THEN <<>>
    ELSE LET char == <<text[1]>>
             char_bbox == textbbox(m, char, size)
             char_width == char_bbox.right - char_bbox.left
             spacing_px == IntTrunc(char_width * letter_spacing, 1000)
         IN  <<DrawText(x, y, char, size)>>
             \o _draw_text_with_letter_spacing(
                    m, x + 100 * (char_width + spacing_px), y, Tail(text), size,
                    letter_spacing)

(***************************************************************************)
(* The name line of both generators: fit, truncate, measure, center,       *)
(* clamp.                                                                  *)
(***************************************************************************)
\* a name line truncated against the font of start_size, not the fitted one
NameLineTruncateAtStart(m, cv, margin, start_size, min_size, y_ratio, y_offset, stripped) ==
    LET max_text_width == MaxTextWidth(cv.width, margin)
    IN  Bind(_fit_text(m, stripped, max_text_width, start_size, min_size).size,
        LAMBDA font :
        Bind(_truncate_to_fit(m, stripped, start_size, max_text_width),
        LAMBDA name :
        Bind(textbbox(m, name, font),
        LAMBDA bb :
        LET text_w == bb.right - bb.left
            text_h == bb.bottom - bb.top
            centered == CenterX(cv.width, text_w, bb.left)
        IN  [margin |-> margin, max_text_width |-> max_text_width,
             start_size |-> start_size, min_size |-> min_size,
             font_size |-> font, name |-> name,
             text_w |-> text_w, text_h |-> text_h, left |-> bb.left, top |-> bb.top,
             x_centered |-> centered,
             x_clamped |-> Clamp(centered, margin, cv.width, text_w),
             y |-> CenterY(cv.height, y_ratio, y_offset, text_h, bb.top)])))

NameLine(m, cv, margin, start_size, min_size, y_ratio, y_offset, stripped) ==
    LET max_text_width == MaxTextWidth(cv.width, margin)
    IN  Bind(_fit_text(m, stripped, max_text_width, start_size, min_size).size,
        LAMBDA font :
        Bind(_truncate_to_fit(m, stripped, font, max_text_width),
        LAMBDA name :
        Bind(textbbox(m, name, font),
        LAMBDA bb :
        LET text_w == bb.right - bb.left
            text_h == bb.bottom - bb.top
            centered == CenterX(cv.width, text_w, bb.left)
        IN  [margin |-> margin, max_text_width |-> max_text_width,
             start_size |-> start_size, min_size |-> min_size,
             font_size |-> font, name |-> name,
             text_w |-> text_w, text_h |-> text_h, left |-> bb.left, top |-> bb.top,
             x_centered |-> centered,
             x_clamped |-> Clamp(centered, margin, cv.width, text_w),
             y |-> CenterY(cv.height, y_ratio, y_offset, text_h, bb.top)])))

\* the course line of generate_certificate, below the name line n
CourseLine(m, cv, n, course) ==
    LET course_font_size == Max(n.min_size, IntTrunc(n.start_size * CourseSizeRatio, 100))
        padding == IntTrunc(cv.height * PaddingRatio, 100)
    IN  Bind(_truncate_to_fit(m, strip(course), course_font_size, n.max_text_width),
        LAMBDA text :
        Bind(textbbox(m, text, course_font_size),
        LAMBDA bb :
        LET text_w_c == bb.right - bb.left
            centered == CenterX(cv.width, text_w_c, bb.left)
        IN  [drawn |-> TRUE, text |-> text, font_size |-> course_font_size,
             text_w |-> text_w_c, left |-> bb.left, top |-> bb.top,
             padding |-> padding, x_centered |-> centered,
             x |-> Clamp(centered, n.margin, cv.width, text_w_c),
             y |-> CourseY(n.y, n.text_h, padding, bb.top)]))

\* a name taken as given, without trimming
RawName(student_name) == student_name

\* name = (student_name or "").strip()
StrippedName(student_name) == strip(student_name)

(***************************************************************************)
(* CertificateGenerator.generate_certificate: what it raises, or what it   *)
(* computed and drew.  course is <<>> for None.                            *)
(***************************************************************************)
generate_certificate(m, e, cv, student_name, course) ==
    IF ~e.output_dir THEN Raise("RuntimeError")
    ELSE IF ~e.template_exists THEN Raise("FileNotFoundError")
    ELSE
    LET margin == Margin(e, cv.width)
        start_size == Getenv(e.CERT_NAME_FONT_SIZE,
                             Max(DefaultStartFloor, IntTrunc(cv.width * DefaultStartRatio, 100)))
        min_size == Getenv(e.CERT_NAME_MIN_FONT_SIZE, DefaultMinSize)
        y_ratio == Getenv(e.CERT_NAME_Y_RATIO, DefaultYRatio)
        y_offset == Getenv(e.CERT_NAME_Y_OFFSET, DefaultYOffset)
        name == StrippedName(student_name)
    IN  IF name = <<>> THEN Raise("ValueError")
        ELSE IF ~e.font_path THEN Raise("RuntimeError")
        ELSE
        Bind(NameLine(m, cv, margin, start_size, min_size, y_ratio, y_offset, name),
        LAMBDA n :
        Bind(IF strip(course) # <<>> THEN CourseLine(m, cv, n, course) ELSE NoCourse,
        LAMBDA c :
        [status |-> "ok", line |-> n, x |-> n.x_clamped, course |-> c,
         draws |-> <<DrawText(n.x_clamped, n.y, n.name, n.font_size)>>
                   \o (IF c.drawn
                       THEN <<DrawText(c.x, c.y, c.text, c.font_size)>>
                       ELSE <<>>)]))

(***************************************************************************)
(* CertificateGenerator.generate_management_certificate                    *)
(***************************************************************************)
generate_management_certificate(m, e, cv, person_name) ==
    IF ~e.output_dir THEN Raise("RuntimeError")
    ELSE IF ~e.management_template_exists THEN Raise("FileNotFoundError")
    ELSE
    LET margin == MgmtMargin(e, cv.width)
        start_size == Getenv(e.CERT_MGMT_NAME_FONT_SIZE, MgmtDefaultStartSize)
        min_size == Getenv(e.CERT_MGMT_NAME_MIN_FONT_SIZE, MgmtDefaultMinSize)
        y_ratio == Getenv(e.CERT_MGMT_NAME_Y_RATIO, DefaultYRatio)
        y_offset == Getenv(e.CERT_MGMT_NAME_Y_OFFSET, MgmtDefaultYOffset)
        x_offset == Getenv(e.CERT_MGMT_NAME_X_OFFSET, MgmtDefaultXOffset)
        letter_spacing == Getenv(e.CERT_MGMT_LETTER_SPACING, MgmtDefaultLetterSpacing)
        name == StrippedName(person_name)
    IN  IF name = <<>> THEN Raise("ValueError")
        ELSE IF ~e.font_path THEN Raise("RuntimeError")
        ELSE
        Bind(NameLine(m, cv, margin, start_size, min_size, y_ratio, y_offset, name),
        LAMBDA n :
        LET x == n.x_clamped + 100 * x_offset
        IN  [status |-> "ok", line |-> n, x |-> x, course |-> NoCourse,
             draws |-> _draw_text_with_letter_spacing(m, x, n.y, n.name, n.font_size,
                                                      letter_spacing)])

\* out_img.save(output_path, "PDF"): reached only when nothing was raised
Save(fs, certificate_id, r) ==
    IF r.status = "ok" THEN [fs EXCEPT ![certificate_id] = Pdf(r.draws)] ELSE fs

(***************************************************************************)
(* SpecRender: one call of generate_certificate or of                      *)
(* generate_management_certificate on a name, an optional course, a        *)
(* canvas and an environment of the bounds, the output file absent or      *)
(* already there.                                                          *)
(***************************************************************************)
CertId == "CERT-1"

Env(px, ratio, mgmt_px, start, min, deployed) ==
    [CERT_NAME_MARGIN_PX |-> px, CERT_NAME_MARGIN_RATIO |-> ratio,
     CERT_NAME_FONT_SIZE |-> start, CERT_NAME_MIN_FONT_SIZE |-> min,
     CERT_NAME_Y_RATIO |-> Unset, CERT_NAME_Y_OFFSET |-> Unset,
     CERT_MGMT_NAME_MARGIN_PX |-> mgmt_px, CERT_MGMT_NAME_MARGIN_RATIO |-> Unset,
     CERT_MGMT_NAME_FONT_SIZE |-> start, CERT_MGMT_NAME_MIN_FONT_SIZE |-> min,
     CERT_MGMT_NAME_Y_RATIO |-> Unset, CERT_MGMT_NAME_Y_OFFSET |-> Unset,
     CERT_MGMT_NAME_X_OFFSET |-> Unset, CERT_MGMT_LETTER_SPACING |-> Unset,
     output_dir |-> TRUE,
     template_exists |-> deployed # "no_template",
     management_template_exists |-> deployed # "no_template",
     font_path |-> deployed # "no_font"]

\* margin settings: default ratio, zero, a few pixels, oversized pixels, a
\* non-digit pixel string with a negative ratio, an oversized ratio, and a
\* management override
MarginSettings ==
    {<<Unset, Unset, Unset>>, <<Num(0), Unset, Unset>>, <<Num(4), Unset, Unset>>,
     <<Num(7), Unset, Unset>>, <<Num(-3), Num(-10), Unset>>, <<Unset, Num(60), Unset>>,
     <<Num(7), Unset, Num(2)>>}

SizeSettings ==
    {<<Unset, Unset>>, <<Num(5), Num(1)>>, <<Num(4), Num(2)>>, <<Num(2), Num(3)>>}

DefaultEnv == Env(Unset, Unset, Unset, Unset, Unset, "ok")

RenderEnvs ==
    {Env(mg[1], mg[2], mg[3], sz[1], sz[2], "ok") : mg \in MarginSettings, sz \in SizeSettings}
    \cup {Env(Unset, Unset, Unset, Num(4), Num(2), d) : d \in {"no_template", "no_font"}}
    \* CERT_MGMT_LETTER_SPACING=0.5: half a glyph between the glyphs
    \cup {[Env(Unset, Unset, Unset, Num(4), Num(2), "ok")
              EXCEPT !.CERT_MGMT_LETTER_SPACING = Num(500)]}

Canvases == {[width |-> 12, height |-> 100], [width |-> 20, height |-> 150]}

RenderMetrics == {Metrics(e, 0, 0, l, t) : e \in {1, 3}, l \in {0, 1}, t \in {0, 1}}

Courses == {<<>>, <<Space>>, <<"A", "a", Space>>}

RenderInit ==
    /\ metrics \in RenderMetrics
    /\ env \in RenderEnvs
    /\ canvas \in Canvases
    /\ arg \in [student_name : TextsUpTo(MaxRenderLen), certificate_id : {CertId},
                course : Courses]
    /\ files \in {[i \in {CertId} |-> f] : f \in {NoFile, Pdf(<<>>)}}
    /\ csv = None /\ management_csv = None /\ ADMIN_KEY = None /\ writes = None
    /\ pc = "call"
    /\ res = None

GenerateCertificate ==
    /\ pc = "call"
    /\ \E r \in {generate_certificate(metrics, env, canvas, arg.student_name, arg.course)} :
          /\ res' = r
          /\ files' = Save(files, arg.certificate_id, r)
    /\ pc' = "generated"
    /\ UNCHANGED <<metrics, arg, env, canvas, csv, management_csv, ADMIN_KEY, writes>>

GenerateManagementCertificate ==
    /\ pc = "call"
    /\ \E r \in {generate_management_certificate(metrics, env, canvas, arg.student_name)} :
          /\ res' = r
          /\ files' = Save(files, arg.certificate_id, r)
    /\ pc' = "generated_management"
    /\ UNCHANGED <<metrics, arg, env, canvas, csv, management_csv, ADMIN_KEY, writes>>

RenderNext == GenerateCertificate \/ GenerateManagementCertificate

SpecRender == RenderInit /\ [][RenderNext]_vars

Rendered == pc \in {"generated", "generated_management"} /\ res.status = "ok"

(* C2 as claimed: after the clamp and before any x-offset,
   margin <= x <= canvas_width - margin - text_width for every canvas width,
   margin and final text width. *)
C2_ClampedBothSides ==
    Rendered =>
        /\ 100 * res.line.margin <= res.line.x_clamped
        /\ res.line.x_clamped
               <= 100 * (canvas.width - res.line.margin - res.line.text_w)

(* C2 amended: after the clamp and before any x-offset, margin <= x always;
   x <= canvas_width - margin - text_width whenever the final text is at
   most canvas_width - 2*margin wide (otherwise the interval is empty and
   x = margin). *)
C2_Clamped ==
    Rendered =>
        /\ 100 * res.line.margin <= res.line.x_clamped
        /\ res.line.text_w <= canvas.width - 2 * res.line.margin =>
              res.line.x_clamped
                  <= 100 * (canvas.width - res.line.margin - res.line.text_w)
        /\ res.line.text_w > canvas.width - 2 * res.line.margin =>
              res.line.x_clamped = 100 * res.line.margin

\* the final text is wider than the space between the margins, and the
\* clamp moved the centered x to the margin
C2_Witness ==
    /\ Rendered
    /\ res.line.text_w > canvas.width - 2 * res.line.margin
    /\ res.line.x_centered < 100 * res.line.margin
    /\ res.line.x_clamped = 100 * res.line.margin

(* C7: when the name is empty or whitespace-only after trimming, the call
   raises an error, computes no placement, and leaves the output file of
   the certificate identifier as it was (absent, or the file already
   there). *)
C7_EmptyNameRaises ==
    [][(pc = "call" /\ strip(arg.student_name) = <<>>) =>
          /\ res'.status = "error"
          /\ DOMAIN res' = {"status", "error"}
          /\ files' = files]_vars

\* a whitespace-only name was refused with the file of the identifier in place
C7_Witness ==
    /\ pc \in {"generated", "generated_management"}
    /\ arg.student_name # <<>> /\ strip(arg.student_name) = <<>>
    /\ res = Raise("ValueError")
    /\ files[arg.certificate_id] = Pdf(<<>>)

(* C8 as claimed: for every canvas width and every configured margin the
   margin used for placement is non-negative and max_text_width is at
   least 1. *)
C8_MarginNonNegative ==
    Rendered => (res.line.margin >= 0 /\ res.line.max_text_width >= 1)

(* C10 as claimed: the y of the course line equals
   primary_y + primary_text_height + gap, and its x is centered on the
   canvas and clamped to the margins independently of the primary x. *)
C10_CourseStackedNoBearing ==
    (Rendered /\ res.course.drawn) =>
        /\ res.course.y = res.line.y + 100 * res.line.text_h + 100 * res.course.padding
        /\ res.course.x =
               Max(100 * res.line.margin,
                   Min(50 * (canvas.width - res.course.text_w) - 100 * res.course.left,
                       100 * (canvas.width - res.line.margin - res.course.text_w)))

(* C10 amended: the y of the course line equals
   primary_y + primary_text_height + gap - top_c, where top_c is the top of
   the course text's own bounding box and gap is 2% of the canvas height
   rounded down; its x is centered on the canvas and clamped to the margins
   from its own width and bearing, independently of the primary x. *)
C10_CourseStacked ==
    (Rendered /\ res.course.drawn) =>
        /\ res.course.padding = (2 * canvas.height) \div 100
        /\ res.course.y = res.line.y + 100 * res.line.text_h
                          + 100 * res.course.padding - 100 * res.course.top
        /\ res.course.x =
               Max(100 * res.line.margin,
                   Min(50 * (canvas.width - res.course.text_w) - 100 * res.course.left,
                       100 * (canvas.width - res.line.margin - res.course.text_w)))

\* a course line with a bearing of its own, drawn at another x than the name
C10_Witness ==
    /\ Rendered /\ res.course.drawn
    /\ res.course.top > 0
    /\ res.course.x # res.line.x_clamped
    /\ Len(res.draws) = 2 /\ res.draws[2].y = res.course.y

\* the management name was drawn glyph by glyph
DrawnSpaced == pc = "generated_management" /\ res.status = "ok"

\* the letter-spacing ratio of the call, in thousandths
LetterSpacing == Getenv(env.CERT_MGMT_LETTER_SPACING, MgmtDefaultLetterSpacing)

(* C11: in _draw_text_with_letter_spacing with letter-spacing ratio r, after
   each glyph the cursor x advances by exactly glyph_width * (1 + r), and
   the cursor x is non-decreasing over the glyphs of the text. *)
C11_AdvanceExact ==
    DrawnSpaced =>
        \A k \in 1..(Len(res.draws) - 1) :
            /\ 1000 * (res.draws[k + 1].x - res.draws[k].x)
                   = 100 * BoxWidth(metrics, res.draws[k].text, res.draws[k].size)
                         * (1000 + LetterSpacing)
            /\ res.draws[k + 1].x >= res.draws[k].x

\* the width of the trimmed name of the call at a font size
NameWidth(size) == BoxWidth(metrics, strip(arg.student_name), size)

(* C16: in the fit-then-truncate pipeline of generate_certificate the name
   is left unchanged by truncation whenever it fits at the size _fit_text
   returned, and truncation alters it only when its width at that size
   exceeds max_text_width; a name that fits at start_size is drawn at
   start_size, untruncated, at the centered x when that lies between the
   margins. *)
C16_FittingNameUnchanged ==
    (pc = "generated" /\ res.status = "ok") =>
        /\ NameWidth(res.line.font_size) <= res.line.max_text_width =>
              res.line.name = strip(arg.student_name)
        /\ res.line.name # strip(arg.student_name) =>
              NameWidth(res.line.font_size) > res.line.max_text_width
        /\ (/\ res.line.start_size >= res.line.min_size
            /\ NameWidth(res.line.start_size) <= res.line.max_text_width) =>
              /\ res.draws[1].size = res.line.start_size
              /\ res.draws[1].text = strip(arg.student_name)
              /\ (/\ 100 * res.line.margin <= res.line.x_centered
                  /\ res.line.x_centered
                         <= 100 * (canvas.width - res.line.margin - res.line.text_w)) =>
                    res.draws[1].x = 50 * (canvas.width - res.line.text_w)
                                     - 100 * res.line.left

\* a name too wide at start_size that the fitter shrank until it fitted, drawn
\* whole and centered
C16_Witness ==
    /\ pc = "generated" /\ res.status = "ok"
    /\ NameWidth(res.line.start_size) > res.line.max_text_width
    /\ res.line.min_size < res.line.font_size
    /\ res.line.font_size < res.line.start_size
    /\ NameWidth(res.line.font_size) <= res.line.max_text_width
    /\ Len(res.line.name) >= 2 /\ res.draws[1].text = strip(arg.student_name)
    /\ res.draws[1].x = res.line.x_centered

(***************************************************************************)
(* app/csv_handler.py.  A row is the canonical student dict of             *)
(* normalize_student; a student id is a sequence of characters too.        *)
(***************************************************************************)
lower(s) == [i \in 1..Len(s) |-> IF s[i] = "A" THEN "a" ELSE s[i]]

\* " ".join(s.split()) of a stripped s: runs of whitespace become one space
RECURSIVE Collapse(_)
Collapse(s) ==
    IF Len(s) < 2 THEN s
    ELSE IF s[1] = Space /\ s[2] = Space THEN Collapse(Tail(s))
    ELSE <<s[1]>> \o Collapse(Tail(s))

_normalize_name(value) == Collapse(strip(lower(value)))

_normalize_student_id(value) == strip(value)

\* the first row matching both the name and the student id
RECURSIVE FindFirst(_, _, _)
FindFirst(students, name_normalized, student_id_normalized) ==
    IF students = <<>> THEN [found |-> FALSE]
    ELSE IF /\ _normalize_name(Head(students).Name) = name_normalized
            /\ _normalize_student_id(Head(students).Student_Id) = student_id_normalized
         THEN [found |-> TRUE, student |-> Head(students)]
         ELSE FindFirst(Tail(students), name_normalized, student_id_normalized)

find_student_by_name_and_id(students, name, student_id) ==
    FindFirst(students, _normalize_name(name), _normalize_student_id(student_id))

\* f"{prefix}-{student_id}" with the default prefix; main.py also passes the
\* name, which the identifier does not use
generate_certificate_id(student_id, name) == <<"CERT", "-">> \o student_id

\* a check that looks in a directory the PDFs are not written to
certificate_exists_Elsewhere(e, fs, certificate_id) == FALSE

\* CertificateGenerator.certificate_exists
certificate_exists(e, fs, certificate_id) ==
    IF ~e.output_dir THEN FALSE ELSE fs[certificate_id].exists

(***************************************************************************)
(* app/main.py.  Every handler is an async def without an await: it runs   *)
(* to completion on the event loop, so a request is one step.              *)
(***************************************************************************)
\* one more write of the PDF by a request that did not force it
Written(ws, certificate_id, force) ==
    IF force THEN ws ELSE [ws EXCEPT ![certificate_id] = @ + 1]

HTTPException(status_code) == [status |-> status_code]
FileResponse(certificate_id, fs) ==
    [status |-> 200, filename |-> certificate_id, file |-> fs[certificate_id]]

Outcome(response, fs, ws) == [response |-> response, files |-> fs, writes |-> ws]

\* a handler whose catch-all except clause also takes the missing CSV
get_certificate_Missing500(m, e, cv, table, fs, ws, name, student_id, force) ==
    IF ~table.exists THEN Outcome(HTTPException(500), fs, ws)
    ELSE
    Bind(find_student_by_name_and_id(table.rows, name, student_id),
    LAMBDA found :
    IF ~found.found THEN Outcome(HTTPException(404), fs, ws)
    ELSE
    LET student == found.student
        certificate_id == generate_certificate_id(student.Student_Id, student.Name)
    IN  IF force \/ ~certificate_exists(e, fs, certificate_id)
        THEN Bind(generate_certificate(m, e, cv, student.Name, <<>>),
             LAMBDA r :
             IF r.status = "error" THEN Outcome(HTTPException(500), fs, ws)
             ELSE LET saved == Save(fs, certificate_id, r)
                  IN  Outcome(FileResponse(certificate_id, saved), saved,
                              Written(ws, certificate_id, force)))
        ELSE Outcome(FileResponse(certificate_id, fs), fs, ws))

\* GET /certificate
get_certificate(m, e, cv, table, fs, ws, name, student_id, force) ==
    IF ~table.exists THEN Outcome(HTTPException(503), fs, ws)
    ELSE
    Bind(find_student_by_name_and_id(table.rows, name, student_id),
    LAMBDA found :
    IF ~found.found THEN Outcome(HTTPException(404), fs, ws)
    ELSE
    LET student == found.student
        certificate_id == generate_certificate_id(student.Student_Id, student.Name)
    IN  IF force \/ ~certificate_exists(e, fs, certificate_id)
        THEN Bind(generate_certificate(m, e, cv, student.Name, <<>>),
             LAMBDA r :
             IF r.status = "error" THEN Outcome(HTTPException(500), fs, ws)
             ELSE LET saved == Save(fs, certificate_id, r)
                  IN  Outcome(FileResponse(certificate_id, saved), saved,
                              Written(ws, certificate_id, force)))
        ELSE Outcome(FileResponse(certificate_id, fs), fs, ws))

\* a loop that skips an existing certificate without recording it
RECURSIVE GenerateAllLoopSkipUncounted(_, _, _, _, _, _, _, _)
GenerateAllLoopSkipUncounted(m, e, cv, students, fs, ws, generated, skipped) ==
    IF students = <<>>
    THEN [raised |-> FALSE, files |-> fs, writes |-> ws,
          generated |-> generated, skipped |-> skipped]
    ELSE
    LET student == Head(students)
        certificate_id == generate_certificate_id(student.Student_Id, student.Name)
    IN  IF certificate_exists(e, fs, certificate_id)
        THEN GenerateAllLoopSkipUncounted(m, e, cv, Tail(students), fs, ws, generated,
                                          skipped)
        ELSE Bind(generate_certificate(m, e, cv, student.Name, student.Course),
             LAMBDA r :
             IF r.status = "error"
             THEN [raised |-> TRUE, files |-> fs, writes |-> ws,
                   generated |-> generated, skipped |-> skipped]
             ELSE GenerateAllLoopSkipUncounted(m, e, cv, Tail(students),
                                               Save(fs, certificate_id, r),
                                               Written(ws, certificate_id, FALSE),
                                               Append(generated, certificate_id), skipped))

\* the loop of GET /generate-all over the rows left
RECURSIVE GenerateAllLoop(_, _, _, _, _, _, _, _)
GenerateAllLoop(m, e, cv, students, fs, ws, generated, skipped) ==
    IF students = <<>>
    THEN [raised |-> FALSE, files |-> fs, writes |-> ws,
          generated |-> generated, skipped |-> skipped]
    ELSE
    LET student == Head(students)
        certificate_id == generate_certificate_id(student.Student_Id, student.Name)
    IN  IF certificate_exists(e, fs, certificate_id)
        THEN GenerateAllLoop(m, e, cv, Tail(students), fs, ws, generated,
                             Append(skipped, certificate_id))
        ELSE Bind(generate_certificate(m, e, cv, student.Name, student.Course),
             LAMBDA r :
             IF r.status = "error"
             THEN [raised |-> TRUE, files |-> fs, writes |-> ws,
                   generated |-> generated, skipped |-> skipped]
             ELSE GenerateAllLoop(m, e, cv, Tail(students),
                                  Save(fs, certificate_id, r),
                                  Written(ws, certificate_id, FALSE),
                                  Append(generated, certificate_id), skipped))

\* GET /generate-all
generate_all_certificates(m, e, cv, table, key, fs, ws, admin_key) ==
    IF key # "" /\ admin_key # key THEN Outcome(HTTPException(403), fs, ws)
    ELSE IF ~table.exists THEN Outcome(HTTPException(500), fs, ws)
    ELSE
    Bind(GenerateAllLoop(m, e, cv, table.rows, fs, ws, <<>>, <<>>),
    LAMBDA done :
    IF done.raised THEN Outcome(HTTPException(500), done.files, done.writes)
    ELSE Outcome([status |-> 200, success |-> TRUE,
                  total_students |-> Len(table.rows),
                  generated |-> Len(done.generated), skipped |-> Len(done.skipped),
                  generated_ids |-> done.generated, skipped_ids |-> done.skipped],
                 done.files, done.writes))

(***************************************************************************)
(* The management endpoints.  CSVHandler.get_all_management and            *)
(* CSVHandler.generate_management_certificate_id are called by main.py;    *)
(* they are taken to mirror get_all_students and generate_certificate_id   *)
(* on the management CSV, with a prefix of their own.                      *)
(***************************************************************************)
get_all_management(table) ==
    IF ~table.exists THEN Raise("FileNotFoundError")
    ELSE [status |-> "ok", rows |-> table.rows]

generate_management_certificate_id(mgmt_id, name) == <<"MGMT", "-">> \o mgmt_id

\* the loop of GET /generate-all-management over the rows left
RECURSIVE GenerateAllManagementLoop(_, _, _, _, _, _, _, _)
GenerateAllManagementLoop(m, e, cv, management, fs, ws, generated, skipped) ==
    IF management = <<>>
    THEN [raised |-> FALSE, files |-> fs, writes |-> ws,
          generated |-> generated, skipped |-> skipped]
    ELSE
    LET person == Head(management)
        certificate_id == generate_management_certificate_id(person.Student_Id, person.Name)
    IN  IF certificate_exists(e, fs, certificate_id)
        THEN GenerateAllManagementLoop(m, e, cv, Tail(management), fs, ws, generated,
                                       Append(skipped, certificate_id))
        ELSE Bind(generate_management_certificate(m, e, cv, person.Name),
             LAMBDA r :
             IF r.status = "error"
             THEN [raised |-> TRUE, files |-> fs, writes |-> ws,
                   generated |-> generated, skipped |-> skipped]
             ELSE GenerateAllManagementLoop(m, e, cv, Tail(management),
                                            Save(fs, certificate_id, r),
                                            Written(ws, certificate_id, FALSE),
                                            Append(generated, certificate_id), skipped))

\* an endpoint published without the check of the admin key
generate_all_management_certificates_Unprotected(m, e, cv, table, key, fs, ws, admin_key) ==
    Bind(get_all_management(table),
    LAMBDA management :
    IF management.status = "error" THEN Outcome(HTTPException(500), fs, ws)
    ELSE
    Bind(GenerateAllManagementLoop(m, e, cv, management.rows, fs, ws, <<>>, <<>>),
    LAMBDA done :
    IF done.raised THEN Outcome(HTTPException(500), done.files, done.writes)
    ELSE Outcome([status |-> 200, success |-> TRUE,
                  total_management |-> Len(management.rows),
                  generated |-> Len(done.generated), skipped |-> Len(done.skipped),
                  generated_ids |-> done.generated, skipped_ids |-> done.skipped],
                 done.files, done.writes)))

\* GET /generate-all-management
generate_all_management_certificates(m, e, cv, table, key, fs, ws, admin_key) ==
    IF key # "" /\ admin_key # key THEN Outcome(HTTPException(403), fs, ws)
    ELSE
    Bind(get_all_management(table),
    LAMBDA management :
    IF management.status = "error" THEN Outcome(HTTPException(500), fs, ws)
    ELSE
    Bind(GenerateAllManagementLoop(m, e, cv, management.rows, fs, ws, <<>>, <<>>),
    LAMBDA done :
    IF done.raised THEN Outcome(HTTPException(500), done.files, done.writes)
    ELSE Outcome([status |-> 200, success |-> TRUE,
                  total_management |-> Len(management.rows),
                  generated |-> Len(done.generated), skipped |-> Len(done.skipped),
                  generated_ids |-> done.generated, skipped_ids |-> done.skipped],
                 done.files, done.writes)))

(***************************************************************************)
(* Spec: the service on one deployment, answering any sequence of          *)
(* requests.                                                               *)
(***************************************************************************)
Row(name, student_id, course) ==
    [Name |-> name, Student_Id |-> student_id, Course |-> course]

StudentRows ==
    {Row(<<"A", "a">>, <<"1">>, <<"a">>),
     Row(<<"a">>, <<"2">>, <<>>),
     Row(<<Space>>, <<"2">>, <<>>),
     Row(<<"a", Space, Space, "a">>, <<"1">>, <<"A">>),
     Row(<<"a">>, <<"1", Space>>, <<"a">>)}

Tables ==
    {[exists |-> FALSE, rows |-> <<>>]}
    \cup {[exists |-> TRUE, rows |-> rows] :
             rows \in UNION {[1..k -> StudentRows] : k \in 0..MaxRows}}

CertIds == {generate_certificate_id(r.Student_Id, r.Name) : r \in StudentRows}

RequestNames == {<<"a">>, <<"A", "a", Space>>, <<"A", Space, "a">>, <<Space>>}
RequestIds == {<<"2">>, <<Space, "1">>}
AdminKeys == {"secret", "guess"}

Init ==
    /\ metrics = Metrics(1, 0, 0, 0, 1)
    /\ env \in {Env(Unset, Unset, Unset, Num(4), Num(2), d) : d \in {"ok", "no_template"}}
    /\ canvas = [width |-> 20, height |-> 150]
    /\ csv \in Tables
    /\ management_csv = None
    /\ ADMIN_KEY \in {"", "secret"}
    /\ files = [i \in CertIds |-> NoFile]
    /\ writes = [i \in CertIds |-> 0]
    /\ pc = "serving"
    /\ arg = None
    /\ res = None

Respond(request, out) ==
    /\ arg' = request
    /\ res' = out.response
    /\ files' = out.files
    /\ writes' = out.writes
    /\ UNCHANGED <<metrics, pc, env, canvas, csv, management_csv, ADMIN_KEY>>

GetCertificate ==
    \E name \in RequestNames, student_id \in RequestIds, force \in BOOLEAN :
    \E out \in {get_certificate(metrics, env, canvas, csv, files, writes,
                                name, student_id, force)} :
        Respond([endpoint |-> "/certificate", name |-> name,
                 student_id |-> student_id, force |-> force], out)

GenerateAllCertificates ==
    \E admin_key \in AdminKeys :
    \E out \in {generate_all_certificates(metrics, env, canvas, csv, ADMIN_KEY,
                                          files, writes, admin_key)} :
        Respond([endpoint |-> "/generate-all", admin_key |-> admin_key,
                 force |-> FALSE], out)

Next == GetCertificate \/ GenerateAllCertificates

Spec == Init /\ [][Next]_vars

(* C9: across any sequence of /certificate requests with force=false and
   /generate-all requests, the file of an identifier is written at most
   once by them; once the file exists, such a request leaves it as it is
   and does not write it again. *)
C9_GeneratedAtMostOnce ==
    [][/\ \A i \in CertIds : writes'[i] <= 1
       /\ arg'.force = FALSE =>
             \A i \in CertIds :
                 files[i].exists => (files'[i] = files[i] /\ writes'[i] = writes[i])]_vars

\* /generate-all found every certificate already written, each exactly once
\* and by an earlier request of the kind, and skipped them all
C9_Witness ==
    /\ pc = "serving" /\ arg # None /\ arg.endpoint = "/generate-all"
    /\ res.status = 200
    /\ res.generated = 0 /\ res.skipped = 2
    /\ \A k \in 1..Len(res.skipped_ids) :
           writes[res.skipped_ids[k]] = 1

\* the row a /certificate request for name and student_id is answered from
Looked(name, student_id) ==
    IF csv.exists THEN find_student_by_name_and_id(csv.rows, name, student_id)
    ELSE [found |-> FALSE]

(* C18: for a /certificate request, a missing CSV yields 503 and an
   unmatched (name, student_id) yields 404, and in both cases no
   certificate file is created or modified; a failure during generation (a
   missing template, a blank name in the matched row) yields 500. *)
C18_FailedLookupTouchesNothing ==
    [][arg'.endpoint = "/certificate" =>
          \E looked \in {Looked(arg'.name, arg'.student_id)} :
              /\ ~csv.exists => (res'.status = 503 /\ files' = files)
              /\ (csv.exists /\ ~looked.found) => (res'.status = 404 /\ files' = files)
              /\ res'.status \in {503, 404} => (files' = files /\ ~looked.found)
              /\ (/\ looked.found
                  /\ \/ arg'.force
                     \/ ~files[generate_certificate_id(looked.student.Student_Id,
                                                       looked.student.Name)].exists
                  /\ \/ ~env.template_exists
                     \/ strip(looked.student.Name) = <<>>) =>
                    res'.status = 500]_vars

\* a forced request for a name the CSV does not hold was answered 404 with
\* the certificates written before it still in place
C18_Witness ==
    /\ pc = "serving" /\ arg # None /\ arg.endpoint = "/certificate"
    /\ arg.force
    /\ csv.exists /\ ~Looked(arg.name, arg.student_id).found
    /\ res.status = 404
    /\ \E i \in CertIds : files[i].exists /\ writes[i] = 1

\* the certificate ids of the rows of the CSV, in order
RowIds == [k \in 1..Len(csv.rows) |->
              generate_certificate_id(csv.rows[k].Student_Id, csv.rows[k].Name)]

(* C19: on a successful /generate-all run every CSV row is counted exactly
   once as generated or skipped (generated + skipped = total_students), no
   certificate file that existed before the run is overwritten, and after
   the run a certificate file exists for every identifier in generated_ids
   and skipped_ids, also when rows of the CSV share an identifier. *)
C19_EveryRowCounted ==
    [][(arg'.endpoint = "/generate-all" /\ res'.status = 200) =>
          /\ res'.total_students = Len(csv.rows)
          /\ res'.generated + res'.skipped = res'.total_students
          /\ res'.generated = Len(res'.generated_ids)
          /\ res'.skipped = Len(res'.skipped_ids)
          /\ \A i \in CertIds :
                Cardinality({k \in 1..Len(RowIds) : RowIds[k] = i})
                    = Cardinality({k \in 1..Len(res'.generated_ids) :
                                      res'.generated_ids[k] = i})
                      + Cardinality({k \in 1..Len(res'.skipped_ids) :
                                        res'.skipped_ids[k] = i})
          /\ \A i \in CertIds : files[i].exists => files'[i] = files[i]
          /\ \A k \in 1..Len(res'.generated_ids) : files'[res'.generated_ids[k]].exists
          /\ \A k \in 1..Len(res'.skipped_ids) : files'[res'.skipped_ids[k]].exists]_vars

\* two rows with one identifier in a single run: the first generated, the
\* second skipped
C19_Witness ==
    /\ pc = "serving" /\ arg # None /\ arg.endpoint = "/generate-all"
    /\ res.status = 200
    /\ res.total_students = 2 /\ res.generated = 1 /\ res.skipped = 1
    /\ res.generated_ids[1] = res.skipped_ids[1]
    /\ csv.rows[1] # csv.rows[2]
    /\ files[res.generated_ids[1]].exists

(* C20: the content of the cached certificate of a student identifier is
   independent of which endpoint generated it first: for one student record
   /certificate and /generate-all pass the same name and the same course
   line to generate_certificate, so the file of an identifier that belongs
   to one record is the file /certificate generates for that record. *)
C20_ContentIndependentOfEndpoint ==
    (pc = "serving" /\ csv.exists) =>
        \A k \in 1..Len(csv.rows) :
            (/\ files[RowIds[k]].exists
             /\ \A j \in 1..Len(csv.rows) :
                    RowIds[j] = RowIds[k] => csv.rows[j] = csv.rows[k]) =>
                files[RowIds[k]].draws
                    = generate_certificate(metrics, env, canvas,
                                           csv.rows[k].Name, <<>>).draws

(***************************************************************************)
(* SpecAdmin: the two admin endpoints on one deployment with a students    *)
(* CSV and a management CSV, answering any sequence of requests.           *)
(***************************************************************************)
ManagementRows ==
    {Row(<<"A">>, <<"1">>, <<>>),
     Row(<<"a", "a">>, <<"1">>, <<>>),
     Row(<<Space>>, <<"2">>, <<>>)}

ManagementTables ==
    {[exists |-> FALSE, rows |-> <<>>]}
    \cup {[exists |-> TRUE, rows |-> rows] :
             rows \in UNION {[1..k -> ManagementRows] : k \in 0..MaxRows}}

ManagementCertIds ==
    {generate_management_certificate_id(r.Student_Id, r.Name) : r \in ManagementRows}

AdminInit ==
    /\ metrics = Metrics(1, 0, 0, 0, 1)
    /\ env \in {Env(Unset, Unset, Unset, Num(4), Num(2), d) : d \in {"ok", "no_template"}}
    /\ canvas = [width |-> 20, height |-> 150]
    /\ csv \in Tables
    /\ management_csv \in ManagementTables
    /\ ADMIN_KEY \in {"", "secret"}
    /\ files = [i \in CertIds \cup ManagementCertIds |-> NoFile]
    /\ writes = [i \in CertIds \cup ManagementCertIds |-> 0]
    /\ pc = "serving"
    /\ arg = None
    /\ res = None

GenerateAllManagementCertificates ==
    \E admin_key \in AdminKeys :
    \E out \in {generate_all_management_certificates(metrics, env, canvas, management_csv,
                                                     ADMIN_KEY, files, writes, admin_key)} :
        Respond([endpoint |-> "/generate-all-management", admin_key |-> admin_key,
                 force |-> FALSE], out)

AdminNext == GenerateAllCertificates \/ GenerateAllManagementCertificates

SpecAdmin == AdminInit /\ [][AdminNext]_vars

(* C12: a /generate-all or /generate-all-management request generates
   certificates only if ADMIN_KEY is empty or the supplied admin_key equals
   ADMIN_KEY; when ADMIN_KEY is non-empty and the supplied key differs, the
   response is 403 and no certificate file is created or modified. *)
C12_AdminKeyGuards ==
    [][/\ (ADMIN_KEY # "" /\ arg'.admin_key # ADMIN_KEY) =>
              (res'.status = 403 /\ files' = files)
       /\ files' # files => (ADMIN_KEY = "" \/ arg'.admin_key = ADMIN_KEY)]_vars

\* a wrong key was refused, the certificates that earlier requests with the
\* right key had generated on both endpoints still in place
C12_Witness ==
    /\ pc = "serving" /\ arg # None
    /\ arg.endpoint = "/generate-all-management"
    /\ ADMIN_KEY = "secret" /\ arg.admin_key = "guess"
    /\ res.status = 403
    /\ \E i \in CertIds : files[i].exists
    /\ \E i \in ManagementCertIds : files[i].exists

=============================================================================
